---- MODULE Spec2Model ----
(***************************************************************************)
(* Worker-side task executor of lrmr (package worker): NewTaskExecutor,    *)
(* TaskExecutor.Run, Abort, AbortOnPanic and WaitForFinish, together with  *)
(* the collaborators the executor calls (stage runner, input reader,       *)
(* output writer, job reporter).                                           *)
(*                                                                         *)
(* One goroutine executes Run; pc is its position.  Every call the         *)
(* goroutine makes to a collaborator is one step whose outcome is chosen   *)
(* from what a Go call can do: return nil ("ok"), return an error ("err")  *)
(* or panic ("panic").  log is the history of those calls, in order.       *)
(*                                                                         *)
(* The second half of the module covers the pure functions the executor's  *)
(* output path is built on: the partitioners of package partitions         *)
(* (specification PartSpec) and the row constructor From of package lrdd   *)
(* (specification FromSpec).  Each draws the arguments of the calls from   *)
(* bounded sets and records what the calls return.                         *)
(***************************************************************************)
EXTENDS Naturals, Sequences, FiniteSets

\* Largest number of batches the input reader delivers before closing.
MaxBatches == 2
\* Number of goroutines that may call WaitForFinish.
NumWaiters == 2

VARIABLES
    pc,          \* position of the executor goroutine
    cause,       \* err argument of the Abort being executed ("none" outside Abort)
    abortRet,    \* where the Abort being executed returns to
    inDefer,     \* the deferred AbortOnPanic is executing (recover() already consumed)
    delivered,   \* batches received from Input.C so far
    inputState,  \* Input.C: "open", "closed" (no error) or "closedErr" (error attached)
    closeCache,  \* outcome cached by the output writer's first completed Close
    log,         \* history of calls: records [op, out, arg]
    wpc,         \* position of each WaitForFinish caller
    partitioner, \* package partitions: the partitioner of a stage
    numOutputs,  \* package partitions: number of executors / live fan-out of the stage
    planned,     \* package partitions: the PlanNext call made, with its result
    calls,       \* package partitions: the DeterminePartition calls made, with results
    preserved,   \* package partitions: result of the IsPreserved call made
    fromIn,      \* package lrdd: the argument given to From
    fromOut      \* package lrdd: the rows From returned

\* State of the task executor, and state of the library packages it is built on.
execVars == <<pc, cause, abortRet, inDefer, delivered, inputState, closeCache, log, wpc>>
libVars == <<partitioner, numOutputs, planned, calls, preserved, fromIn, fromOut>>
vars == <<execVars, libVars>>

Waiters == 1..NumWaiters

\* What a call into a collaborator can do.
Outcomes == {"ok", "err", "panic"}
\* What a call that honours a Go (error) signature can do.
Returns == {"ok", "err"}

Ev(op, out, arg) == [op |-> op, out |-> out, arg |-> arg]

\* Positions at which no TaskExecutor exists (before or without construction).
NoExecutor == {"new", "ctorErr", "ctorReported", "ctorPanic"}

\* The library packages when no call into them is being examined.
LibIdle ==
    /\ partitioner = <<>>
    /\ numOutputs = 0
    /\ planned = [done |-> FALSE, order |-> <<>>, out |-> <<>>]
    /\ calls = <<>>
    /\ preserved = "uncalled"
    /\ fromIn = [type |-> "nil", entries |-> <<>>]
    /\ fromOut = [done |-> FALSE, rows |-> <<>>]

\* No executor constructed yet.
ExecInit ==
    /\ pc = "new"
    /\ cause = "none"
    /\ abortRet = "none"
    /\ inDefer = FALSE
    /\ delivered = 0
    /\ inputState = "open"
    /\ closeCache = "none"
    /\ log = <<>>
    /\ wpc = [w \in Waiters |-> "idle"]

Init == ExecInit /\ LibIdle

(***************************************************************************)
(* Helpers over the call history.                                          *)
(***************************************************************************)
Idx(op) == {i \in DOMAIN log : log[i].op = op}
Count(op) == Cardinality(Idx(op))
\* ReportFailure calls issued by the executor (Abort), not by the caller of
\* NewTaskExecutor.
AbortReports == {i \in Idx("ReportFailure") : log[i].arg # "init"}

(***************************************************************************)
(* NewTaskExecutor: deserialize the stage, then runner.Setup.  An error of *)
(* either returns (nil, err): no executor exists and Run is never started. *)
(* A panic of Setup leaves NewTaskExecutor, which installs no recovery.    *)
(***************************************************************************)
CtorResultLenient(des, setup) ==
    IF des = "err" THEN "ctorErr"
    ELSE IF setup = "panic" THEN "ctorPanic"
    ELSE "created"

CtorResult(des, setup) ==
    IF "err" \in {des, setup} THEN "ctorErr"
    ELSE IF setup = "panic" THEN "ctorPanic"
    ELSE "created"

NewTaskExecutor ==
    /\ pc = "new"
    /\ \E des \in Returns, setup \in Outcomes :
         /\ log' = IF des = "err"
                   THEN <<Ev("Deserialize", "err", "-")>>
                   ELSE <<Ev("Deserialize", "ok", "-"), Ev("Setup", setup, "-")>>
         /\ pc' = CtorResult(des, setup)
    /\ UNCHANGED <<cause, abortRet, inDefer, delivered, inputState, closeCache, wpc>>
    /\ UNCHANGED libVars

\* The caller of NewTaskExecutor, on a returned error: the failure is reported
\* to the job reporter (spec 4.5 step 1, spec 7 item 1).
CallerReportsFailure ==
    /\ pc = "ctorErr"
    /\ \E out \in Returns :
         log' = Append(log, Ev("ReportFailure", out, "init"))
    /\ pc' = "ctorReported"
    /\ UNCHANGED <<cause, abortRet, inDefer, delivered, inputState, closeCache, wpc>>
    /\ UNCHANGED libVars

(***************************************************************************)
(* Abort(err) as invoked from the body of Run after the call recorded as e *)
(* returned an error; r is what Run does when Abort returns.               *)
(***************************************************************************)
Abort(e, c, r) ==
    /\ log' = log \o <<e, Ev("Abort", "-", c)>>
    /\ pc' = "abortReport"
    /\ cause' = c
    /\ abortRet' = r
    /\ UNCHANGED inDefer

(***************************************************************************)
(* A panic of the call recorded as e.  In the body of Run the deferred     *)
(* AbortOnPanic recovers it and calls Abort with the wrapped panic; Run    *)
(* returns when that Abort returns.  Inside the deferred call there is no  *)
(* further recovery: the panic leaves Run.                                 *)
(***************************************************************************)
AbortOnPanic(e) ==
    /\ log' = log \o <<e, Ev("Recover", "-", "-"), Ev("Abort", "-", "panic")>>
    /\ pc' = "abortReport"
    /\ cause' = "panic"
    /\ abortRet' = "deferred"
    /\ inDefer' = TRUE

Panic(e) ==
    IF inDefer
    THEN /\ log' = Append(log, e)
         /\ pc' = "crashed"
         /\ UNCHANGED <<cause, abortRet, inDefer>>
    ELSE AbortOnPanic(e)

\* Run starts: the deferred AbortOnPanic is installed, rowCnt := 0.
RunStart ==
    /\ pc = "created"
    /\ pc' = "drain"
    /\ UNCHANGED <<cause, abortRet, inDefer, delivered, inputState, closeCache, log, wpc>>
    /\ UNCHANGED libVars

(***************************************************************************)
(* Input reader.  The stream delivers batches and is then closed, either   *)
(* plainly or with an error attached (reception error, cancellation).      *)
(***************************************************************************)
InputClose ==
    /\ pc \in {"created", "drain", "apply"}
    /\ inputState = "open"
    /\ \E st \in {"closed", "closedErr"} : inputState' = st
    /\ UNCHANGED <<pc, cause, abortRet, inDefer, delivered, closeCache, log, wpc>>
    /\ UNCHANGED libVars

\* for rows := range e.Input.C : a batch is received.
RecvBatch ==
    /\ pc = "drain"
    /\ inputState = "open"
    /\ delivered < MaxBatches
    /\ delivered' = delivered + 1
    /\ pc' = "apply"
    /\ UNCHANGED <<cause, abortRet, inDefer, inputState, closeCache, log, wpc>>
    /\ UNCHANGED libVars

LoopExitSkipsTeardown ==
    /\ pc = "drain"
    /\ inputState # "open"
    /\ pc' = "close"
    /\ UNCHANGED <<cause, abortRet, inDefer, delivered, inputState, closeCache, log, wpc>>
    /\ UNCHANGED libVars

\* for rows := range e.Input.C : the channel is closed, the loop ends.  Run
\* reads nothing but the channel: an attached error is not looked at.
LoopExit ==
    /\ pc = "drain"
    /\ inputState # "open"
    /\ pc' = "teardown"
    /\ UNCHANGED <<cause, abortRet, inDefer, delivered, inputState, closeCache, log, wpc>>
    /\ UNCHANGED libVars

\* e.runner.Apply(e.context, rows, e.Output)
Apply ==
    /\ pc = "apply"
    /\ \E out \in Outcomes :
         LET e == Ev("Apply", out, "run") IN
         CASE out = "ok"    -> /\ log' = Append(log, e)
                               /\ pc' = "drain"
                               /\ UNCHANGED <<cause, abortRet, inDefer>>
           [] out = "err"   -> Abort(e, "apply", "return")
           [] out = "panic" -> Panic(e)
    /\ UNCHANGED <<delivered, inputState, closeCache, wpc>>
    /\ UNCHANGED libVars

\* e.runner.Teardown(e.context, e.Output)
Teardown ==
    /\ pc = "teardown"
    /\ \E out \in Outcomes :
         LET e == Ev("Teardown", out, "run") IN
         CASE out = "ok"    -> /\ log' = Append(log, e)
                               /\ pc' = "close"
                               /\ UNCHANGED <<cause, abortRet, inDefer>>
           [] out = "err"   -> Abort(e, "teardown", "return")
           [] out = "panic" -> Panic(e)
    /\ UNCHANGED <<delivered, inputState, closeCache, wpc>>
    /\ UNCHANGED libVars

(***************************************************************************)
(* Output writer: Close is idempotent, a later invocation returns the      *)
(* cached outcome of the first one that completed (spec 4.3).              *)
(***************************************************************************)
CloseOutcomes == IF closeCache = "none" THEN Outcomes ELSE {closeCache}

CloseCached(out) == IF out \in Returns THEN out ELSE closeCache

\* if err := e.Output.Close(); err != nil { e.Abort(...) }  -- and no return:
\* when that Abort returns, Run goes on to ReportSuccess.
CloseOutput ==
    /\ pc = "close"
    /\ \E out \in CloseOutcomes :
         LET e == Ev("Close", out, "run") IN
         /\ closeCache' = CloseCached(out)
         /\ CASE out = "ok"    -> /\ log' = Append(log, e)
                                  /\ pc' = "reportSuccess"
                                  /\ UNCHANGED <<cause, abortRet, inDefer>>
              [] out = "err"   -> Abort(e, "close", "fallthrough")
              [] out = "panic" -> Panic(e)
    /\ UNCHANGED <<delivered, inputState, wpc>>
    /\ UNCHANGED libVars

\* e.reporter.ReportSuccess(e.task.Reference())
ReportSuccess ==
    /\ pc = "reportSuccess"
    /\ \E out \in Outcomes :
         LET e == Ev("ReportSuccess", out, "run") IN
         CASE out = "ok"    -> /\ log' = Append(log, e)
                               /\ pc' = "signal"
                               /\ UNCHANGED <<cause, abortRet, inDefer>>
           [] out = "err"   -> Abort(e, "report", "return")
           [] out = "panic" -> Panic(e)
    /\ UNCHANGED <<delivered, inputState, closeCache, wpc>>
    /\ UNCHANGED libVars

AbortReportStopsOnError ==
    /\ pc = "abortReport"
    /\ \E out \in Outcomes :
         LET e == Ev("ReportFailure", out, cause) IN
         IF out = "panic"
         THEN Panic(e)
         ELSE /\ log' = Append(log, e)
              /\ pc' = IF out = "err" THEN "returned" ELSE "abortClose"
              /\ UNCHANGED <<cause, abortRet, inDefer>>
    /\ UNCHANGED <<delivered, inputState, closeCache, wpc>>
    /\ UNCHANGED libVars

\* Abort: reportErr := e.reporter.ReportFailure(ref, err); an error is logged.
AbortReport ==
    /\ pc = "abortReport"
    /\ \E out \in Outcomes :
         LET e == Ev("ReportFailure", out, cause) IN
         IF out = "panic"
         THEN Panic(e)
         ELSE /\ log' = Append(log, e)
              /\ pc' = "abortClose"
              /\ UNCHANGED <<cause, abortRet, inDefer>>
    /\ UNCHANGED <<delivered, inputState, closeCache, wpc>>
    /\ UNCHANGED libVars

\* Abort: _ = e.Output.Close(); then Abort returns to where it was called.
AbortReturn ==
    IF abortRet = "fallthrough" THEN "reportSuccess" ELSE "returned"

AbortCloseSkipped ==
    /\ pc = "abortClose"
    /\ pc' = AbortReturn
    /\ cause' = "none"
    /\ abortRet' = "none"
    /\ UNCHANGED <<inDefer, delivered, inputState, closeCache, log, wpc>>
    /\ UNCHANGED libVars

AbortClose ==
    /\ pc = "abortClose"
    /\ \E out \in CloseOutcomes :
         LET e == Ev("Close", out, "abort") IN
         /\ closeCache' = CloseCached(out)
         /\ IF out = "panic"
            THEN Panic(e)
            ELSE /\ log' = Append(log, e)
                 /\ pc' = AbortReturn
                 /\ cause' = "none"
                 /\ abortRet' = "none"
                 /\ UNCHANGED inDefer
    /\ UNCHANGED <<delivered, inputState, wpc>>
    /\ UNCHANGED libVars

\* WaitForFinish: <-e.finishChan, called on a constructed executor.
WaitForFinish(w) ==
    /\ pc \notin NoExecutor
    /\ wpc[w] = "idle"
    /\ wpc' = [wpc EXCEPT ![w] = "blocked"]
    /\ UNCHANGED <<pc, cause, abortRet, inDefer, delivered, inputState, closeCache, log>>
    /\ UNCHANGED libVars

\* e.finishChan <- true on the unbuffered channel: the send completes together
\* with one blocked receive; Run then returns.
SignalFinish(w) ==
    /\ pc = "signal"
    /\ wpc[w] = "blocked"
    /\ wpc' = [wpc EXCEPT ![w] = "returned"]
    /\ pc' = "returned"
    /\ log' = Append(log, Ev("Signal", "ok", "run"))
    /\ UNCHANGED <<cause, abortRet, inDefer, delivered, inputState, closeCache>>
    /\ UNCHANGED libVars

Next ==
    \/ NewTaskExecutor
    \/ CallerReportsFailure
    \/ RunStart
    \/ InputClose
    \/ RecvBatch
    \/ LoopExit
    \/ Apply
    \/ Teardown
    \/ CloseOutput
    \/ ReportSuccess
    \/ AbortReport
    \/ AbortClose
    \/ \E w \in Waiters : WaitForFinish(w)
    \/ \E w \in Waiters : SignalFinish(w)

Spec == Init /\ [][Next]_vars

\* The steps taken by the goroutine that executes Run.  The Go scheduler runs
\* a goroutine that is able to take its next step; callers of WaitForFinish
\* and the input reader are under no such obligation.
RunStep ==
    \/ RecvBatch
    \/ LoopExit
    \/ Apply
    \/ Teardown
    \/ CloseOutput
    \/ ReportSuccess
    \/ AbortReport
    \/ AbortClose
    \/ \E w \in Waiters : SignalFinish(w)

FairSpec == Spec /\ WF_vars(RunStep)

TypeOK ==
    /\ pc \in {"new", "ctorErr", "ctorReported", "ctorPanic", "created", "drain",
               "apply", "teardown", "close", "reportSuccess", "signal",
               "abortReport", "abortClose", "returned", "crashed"}
    /\ cause \in {"none", "apply", "teardown", "close", "report", "panic"}
    /\ abortRet \in {"none", "return", "fallthrough", "deferred"}
    /\ inDefer \in BOOLEAN
    /\ delivered \in 0..MaxBatches
    /\ inputState \in {"open", "closed", "closedErr"}
    /\ closeCache \in {"none", "ok", "err"}
    /\ wpc \in [Waiters -> {"idle", "blocked", "returned"}]

(***************************************************************************)
(* Properties of the executor.                                             *)
(***************************************************************************)

\* C1: when Run has returned, the reporter has received ReportSuccess or
\* ReportFailure, and it has received both only when ReportSuccess came first
\* and failed, with ReportFailure after it.  (Stated in its weakest reading:
\* repeated reports are not counted here, and a ReportSuccess that panicked
\* counts as failed.)
C1_OneReportPerRun ==
    pc = "returned" =>
        LET S == Idx("ReportSuccess")
            F == AbortReports
        IN  /\ S \cup F # {}
            /\ (S # {} /\ F # {}) =>
                   \A s \in S, f \in F : s < f /\ log[s].out # "ok"

\* C2: once Output.Close has returned an error in Run, ReportSuccess is never
\* called and the completion channel is never signalled; when Run has ended the
\* close error has been reported by ReportFailure.
CloseFailedInRun == \E i \in DOMAIN log : log[i] = Ev("Close", "err", "run")

C2_CloseErrorAborts ==
    CloseFailedInRun =>
        /\ Idx("ReportSuccess") = {}
        /\ \A w \in Waiters : wpc[w] # "returned"
        /\ pc \in {"returned", "crashed"} =>
               \E i \in AbortReports : log[i].arg = "close"

\* C3: in one run ReportSuccess is called at most once and ReportFailure is
\* called at most once.  (Stated for the failures reported for returned
\* errors alone; a report of a recovered panic is not counted.)
C3_EachReportAtMostOnce ==
    /\ Count("ReportSuccess") <= 1
    /\ Cardinality({i \in AbortReports : log[i].arg # "panic"}) <= 1

\* C4: when the input stream was closed with an error attached, ReportSuccess
\* is not called, and when Run has returned ReportFailure has been called.
C4_InputErrorAborts ==
    inputState = "closedErr" =>
        /\ Idx("ReportSuccess") = {}
        /\ pc = "returned" => AbortReports # {}

\* C5: a WaitForFinish call has returned only if ReportSuccess returned without
\* error and no ReportFailure was issued for the task.
C5_WaitReturnsOnlyOnSuccess ==
    \A w \in Waiters :
        wpc[w] = "returned" =>
            /\ \E i \in Idx("ReportSuccess") : log[i].out = "ok"
            /\ AbortReports = {}

\* C6: whenever ReportSuccess is called, Setup has returned, then every batch
\* received so far was passed to Apply (one call per batch, each returned nil),
\* then Teardown returned, then Output.Close was called and returned; no Apply
\* lies before Setup or after Teardown.
C6_OrderBeforeSuccess ==
    \A i \in Idx("ReportSuccess") :
        \E s \in 1..i, t \in 1..i, c \in 1..i :
            /\ s < t /\ t < c /\ c < i
            /\ log[s] = Ev("Setup", "ok", "-")
            /\ log[t] = Ev("Teardown", "ok", "run")
            /\ log[c].op = "Close" /\ log[c].out \in Returns
            /\ \A a \in Idx("Apply") : s < a /\ a < t /\ log[a].out = "ok"
            /\ Count("Apply") = delivered

C6_Witness ==
    /\ Idx("ReportSuccess") # {}
    /\ delivered >= 2

\* C7: if the runner panics during any step of the task (Setup, Apply on some
\* batch, Teardown), the panic is recovered and passed to Abort; ReportSuccess
\* is never fired, and when Run has returned ReportFailure was fired exactly
\* once and Output.Close was attempted.
RunnerPanicked ==
    \E i \in DOMAIN log :
        log[i].op \in {"Setup", "Apply", "Teardown"} /\ log[i].out = "panic"

C7_RunnerPanicContained ==
    RunnerPanicked =>
        /\ pc # "ctorPanic"
        /\ \E i \in Idx("Abort") : log[i].arg = "panic"
        /\ Idx("ReportSuccess") = {}
        /\ pc = "returned" =>
               /\ Cardinality(AbortReports) = 1
               /\ Idx("Close") # {}

\* C8: if deserialising the stage or runner.Setup fails, no executor is
\* created, no input batch is consumed, and the failure is reported to the job
\* reporter exactly once.
InitFailed ==
    \E i \in DOMAIN log :
        log[i].op \in {"Deserialize", "Setup"} /\ log[i].out = "err"

C9_ApplyErrorAborts ==
    \A i \in Idx("Apply") :
        log[i].out = "err" =>
            /\ i < Len(log)
            /\ log[i + 1] = Ev("Abort", "-", "apply")
            /\ \A j \in Idx("Apply") : j <= i
            /\ Idx("Teardown") = {}
            /\ Idx("ReportSuccess") = {}
            /\ pc = "returned" => Cardinality(AbortReports) = 1

\* C10: every invocation of Abort(err) calls ReportFailure with err; when that
\* call returns, with or without an error, Output.Close is attempted next; and
\* when Close returns, with or without an error, Abort returns to its caller:
\* nothing is re-raised and no other cause is reported.
C10_AbortReportsThenCloses ==
    /\ \A i \in Idx("Abort") :
           IF i = Len(log)
           THEN pc = "abortReport" /\ cause = log[i].arg
           ELSE log[i + 1].op = "ReportFailure" /\ log[i + 1].arg = log[i].arg
    /\ \A i \in AbortReports :
           log[i].out \in Returns =>
               IF i = Len(log)
               THEN pc = "abortClose" /\ cause = log[i].arg
               ELSE log[i + 1].op = "Close" /\ log[i + 1].arg = "abort"
    /\ \A i \in Idx("Close") :
           (log[i].arg = "abort" /\ log[i].out \in Returns) =>
               IF i = Len(log)
               THEN pc \in {"returned", "reportSuccess"}
               ELSE log[i + 1].op = "ReportSuccess"

C10_Witness ==
    /\ pc = "returned"
    /\ \E i \in AbortReports :
           /\ log[i].out = "err"
           /\ i < Len(log)
           /\ log[i + 1] = Ev("Close", "err", "abort")

\* Every call made so far returned without error and without panicking.
NothingFailed == \A i \in DOMAIN log : log[i].out = "ok"

\* C11: once Apply, Teardown, Output.Close and ReportSuccess have all
\* succeeded, Run eventually returns, whether or not any goroutine ever calls
\* WaitForFinish.
C11_RunReturnsAfterSuccess ==
    (pc = "signal" /\ NothingFailed) ~> (pc = "returned")

\* C12: the completion signal of a successful run unblocks every goroutine
\* that is blocked in WaitForFinish: the step by which Run sends on finishChan
\* and returns is the only send there is, so every waiter blocked at that
\* step has to return by it.
C12_SignalUnblocksEveryWaiter ==
    [][(pc = "signal" /\ pc' = "returned") =>
           \A w \in Waiters : wpc[w] = "blocked" => wpc'[w] = "returned"]_vars

\* C19: when Run has returned, Output.Close has been invoked at least once,
\* and exactly once when no call failed.
C19_CloseInvokedBeforeReturn ==
    pc = "returned" =>
        /\ Count("Close") >= 1
        /\ NothingFailed => Count("Close") = 1

\* Run returned after an Abort whose ReportFailure failed: Close was still
\* invoked, by Abort.
C19_Witness ==
    /\ pc = "returned"
    /\ \E i \in AbortReports : log[i].out = "err"
    /\ Count("Close") >= 1

(***************************************************************************)
(* Package partitions (partitioner.go).                                    *)
(*                                                                         *)
(* A Go string is the sequence of its bytes ("a" is <<97>>, "10" is        *)
(* <<49, 48>>).  A uint64 is the sequence of its eight bytes, least        *)
(* significant first.  A partitioner value is the sequence of its layers,  *)
(* outermost first: a wrapper layer is followed by the layers of the       *)
(* partitioner it holds.  An affinity map is the set of its <<key, value>> *)
(* entries.                                                                *)
(***************************************************************************)

\* Largest number of executors / downstream partitions of a stage.
MaxOutputs == 11
\* Largest value drawn for rand.Int().
MaxRand == 25
\* Longest key list given to NewFiniteKeyPartitioner.
MaxKeys == 2
\* Largest number of wrappers applied around a partitioner.
MaxWraps == 2

\* strconv.Itoa / strconv.FormatUint(_, 10) of a non-negative number.
RECURSIVE Itoa(_)
Itoa(i) ==
    IF i < 10 THEN <<48 + i>> ELSE Itoa(i \div 10) \o <<48 + (i % 10)>>

\* Exclusive or of two bytes.
RECURSIVE Xor8(_, _)
Xor8(x, y) ==
    IF x = 0 /\ y = 0 THEN 0
    ELSE ((x + y) % 2) + 2 * Xor8(x \div 2, y \div 2)

\* FNV-1a, 64 bit: offset basis 0xcbf29ce484222325 and prime 0x100000001b3.
FnvOffset64 == <<37, 35, 34, 132, 228, 156, 242, 203>>
FnvPrime64 == <<179, 1, 0, 0, 0, 1, 0, 0>>

\* Sum of the byte products that fall into byte k of a product.
RECURSIVE ColumnSum(_, _, _, _)
ColumnSum(a, b, k, i) ==
    IF i = 0 THEN 0 ELSE a[i] * b[k + 1 - i] + ColumnSum(a, b, k, i - 1)

RECURSIVE MulFrom(_, _, _, _)
MulFrom(a, b, k, carry) ==
    IF k > Len(a) THEN <<>>
    ELSE LET t == ColumnSum(a, b, k, k) + carry
         IN  <<t % 256>> \o MulFrom(a, b, k + 1, t \div 256)

\* a * b on uint64: the product modulo 2^64.
Mul64(a, b) == MulFrom(a, b, 1, 0)

RECURSIVE HashFrom(_, _, _)
HashFrom(h, s, i) ==
    IF i > Len(s) THEN h
    ELSE HashFrom(Mul64([h EXCEPT ![1] = Xor8(h[1], s[i])], FnvPrime64), s, i + 1)

\* fnv1a.HashString64(s)
HashString64(s) == HashFrom(FnvOffset64, s, 1)

RECURSIVE ModFrom(_, _, _, _)
ModFrom(h, n, k, r) ==
    IF k = 0 THEN r ELSE ModFrom(h, n, k - 1, (r * 256 + h[k]) % n)

\* h % uint64(n) for n > 0.
ModU64(h, n) == ModFrom(h, n, Len(h), 0)

\* Partition{ID, IsElastic, AssignmentAffinity}
Partition(id, elastic, aff) ==
    [ID |-> id, IsElastic |-> elastic, AssignmentAffinity |-> aff]

\* (id, err) as returned by DeterminePartition; err is "nil", "ErrNoOutput",
\* or "panic" when the call does not return but panics.
Result(id, err) == [id |-> id, err |-> err]

Layer(kind, keys, aff) == [kind |-> kind, keys |-> keys, aff |-> aff]

\* Dynamic type of the value held by a Partitioner interface.
DynType(p) == IF p = <<>> THEN "nil" ELSE Head(p).kind

NewHashKeyPartitioner == <<Layer("*hashKeyPartitioner", {}, {})>>
NewShuffledPartitioner == <<Layer("*ShuffledPartitioner", {}, {})>>
NewPreservePartitioner == <<Layer("*PreservePartitioner", {}, {})>>
NewFiniteKeyPartitioner(keys) ==
    <<Layer("*FiniteKeyPartitioner", {keys[i] : i \in DOMAIN keys}, {})>>

\* Any other implementation of the Partitioner interface: one that plans the
\* given number of partitions with an affinity of its own on each, and that
\* routes every row to the partition of the current task.
OtherPartitioner(aff) == <<Layer("other", {}, aff)>>

WrapPartitioner(p) == <<Layer("SerializablePartitioner", {}, {})>> \o p

UnwrapPartitioner(p) ==
    IF DynType(p) = "SerializablePartitioner" THEN Tail(p) ELSE p

IsPreserved(p) == DynType(UnwrapPartitioner(p)) = "*PreservePartitioner"

WithAssignmentToMaster(p) ==
    <<Layer("*masterAssigner", {}, {})>> \o WrapPartitioner(p)

PlanForNumberOfFromOne(numExecutors) ==
    [i \in 1..numExecutors |-> Partition(Itoa(i), TRUE, {})]

PlanForNumberOf(numExecutors) ==
    [i \in 1..numExecutors |-> Partition(Itoa(i - 1), TRUE, {})]

\* range over f.KeySet visits the keys in an order of the runtime's choosing.
FiniteKeyPlanNext(f, order) ==
    [i \in 1..Len(order) |-> Partition(order[i], FALSE, {})]

FiniteKeyDetermineUnchecked(f, c, key, n) == Result(key, "nil")

FiniteKeyDeterminePartition(f, c, key, n) ==
    IF key \notin f.keys THEN Result(<<>>, "ErrNoOutput") ELSE Result(key, "nil")

HashKeyDetermineSalted(h, c, key, n) ==
    IF n = 0 THEN Result(<<>>, "panic")
    ELSE Result(Itoa(ModU64(HashString64(key \o c), n)), "nil")

\* The uint64 remainder by zero is a run-time panic.
HashKeyDeterminePartition(h, c, key, n) ==
    IF n = 0 THEN Result(<<>>, "panic")
    ELSE Result(Itoa(ModU64(HashString64(key), n)), "nil")

\* random is the value of rand.Int(); the int remainder by zero panics.
ShuffledDeterminePartition(f, c, key, n, random) ==
    IF n = 0 THEN Result(<<>>, "panic") ELSE Result(Itoa(random % n), "nil")

PreserveDeterminePartition(p, c, key, n) == Result(c, "nil")

OtherPlanNext(o, numExecutors) ==
    [i \in 1..numExecutors |-> Partition(Itoa(i - 1), TRUE, o.aff)]

OtherDeterminePartition(o, c, key, n) == Result(c, "nil")

\* m[key] = value on an affinity map
MapSet(m, key, value) == {e \in m : e[1] # key} \cup {<<key, value>>}

MasterAssignNewMap(plan) ==
    [i \in DOMAIN plan |->
        [plan[i] EXCEPT !.AssignmentAffinity = {<<"Type", "master">>}]]

\* The loop of masterAssigner.PlanNext over the plan of the wrapped partitioner.
MasterAssign(plan) ==
    [i \in DOMAIN plan |->
        [plan[i] EXCEPT !.AssignmentAffinity =
            MapSet(IF Cardinality(@) = 0 THEN {} ELSE @, "Type", "master")]]

\* p.PlanNext(numExecutors), dispatched on the dynamic type of p.
RECURSIVE PlanNext(_, _, _)
PlanNext(p, numExecutors, order) ==
    LET l == Head(p) IN
    CASE l.kind = "*FiniteKeyPartitioner" -> FiniteKeyPlanNext(l, order)
      [] l.kind = "other" -> OtherPlanNext(l, numExecutors)
      [] l.kind = "SerializablePartitioner" -> PlanNext(Tail(p), numExecutors, order)
      [] l.kind = "*masterAssigner" -> MasterAssign(PlanNext(Tail(p), numExecutors, order))
      [] OTHER -> PlanForNumberOf(numExecutors)

\* p.DeterminePartition(c, r, numOutputs) for a row r with r.Key = key.
RECURSIVE DeterminePartition(_, _, _, _, _)
DeterminePartition(p, c, key, n, random) ==
    LET l == Head(p) IN
    CASE l.kind = "*FiniteKeyPartitioner" -> FiniteKeyDeterminePartition(l, c, key, n)
      [] l.kind = "*hashKeyPartitioner" -> HashKeyDeterminePartition(l, c, key, n)
      [] l.kind = "*ShuffledPartitioner" -> ShuffledDeterminePartition(l, c, key, n, random)
      [] l.kind = "*PreservePartitioner" -> PreserveDeterminePartition(l, c, key, n)
      [] l.kind = "other" -> OtherDeterminePartition(l, c, key, n)
      [] OTHER -> DeterminePartition(Tail(p), c, key, n, random)

(***************************************************************************)
(* Calls into package partitions.  A stage is given a partitioner and a    *)
(* number of executors; the master calls PlanNext once, producers call     *)
(* DeterminePartition per row, and the planner asks IsPreserved.           *)
(***************************************************************************)
Seqs(S, n) == UNION {[1..k -> S] : k \in 0..n}

Perms(S) ==
    {f \in [1..Cardinality(S) -> S] : \A i, j \in DOMAIN f : i # j => f[i] # f[j]}

\* Row keys "", "a", "b", "ab"; keys a FiniteKey partitioner is built from.
RowKeys == {<<>>, <<97>>, <<98>>, <<97, 98>>}
FiniteKeyPool == {<<97>>, <<98>>}
KeyLists == Seqs(FiniteKeyPool, MaxKeys)

\* PartitionID() of the task that routes the row: "0" or "7".
Contexts == {Itoa(0), Itoa(7)}

\* Values drawn for rand.Int(), which is never negative.
Rands == {0, 3, MaxRand}

NumOutputsSet == {0, 1, 4, MaxOutputs}

Affinities == {{}, {<<"Zone", "a">>}, {<<"Type", "worker">>, <<"Zone", "a">>}}

Bases ==
    {NewHashKeyPartitioner, NewShuffledPartitioner, NewPreservePartitioner}
        \cup {NewFiniteKeyPartitioner(ks) : ks \in KeyLists}
        \cup {OtherPartitioner(a) : a \in Affinities}

\* The partitioners obtained with at most k applications of WrapPartitioner
\* and WithAssignmentToMaster.
RECURSIVE Wrappings(_)
Wrappings(k) ==
    IF k = 0 THEN Bases
    ELSE LET W == Wrappings(k - 1)
         IN  W \cup {WrapPartitioner(p) : p \in W}
               \cup {WithAssignmentToMaster(p) : p \in W}

Partitioners == Wrappings(MaxWraps)

\* The innermost layer: the partitioner that is not a wrapper.
Base(p) == p[Len(p)]

PartInit ==
    /\ ExecInit
    /\ partitioner \in Partitioners
    /\ numOutputs \in NumOutputsSet
    /\ planned = [done |-> FALSE, order |-> <<>>, out |-> <<>>]
    /\ calls = <<>>
    /\ preserved = "uncalled"
    /\ fromIn = [type |-> "nil", entries |-> <<>>]
    /\ fromOut = [done |-> FALSE, rows |-> <<>>]

\* planned := partitioner.PlanNext(numOutputs), called once per stage.
PlanNextCall ==
    /\ ~planned.done
    /\ \E order \in Perms(Base(partitioner).keys) :
         planned' = [done |-> TRUE, order |-> order,
                     out |-> PlanNext(partitioner, numOutputs, order)]
    /\ UNCHANGED <<partitioner, numOutputs, calls, preserved, fromIn, fromOut>>
    /\ UNCHANGED execVars

\* partitioner.DeterminePartition(c, r, numOutputs) for some task and row;
\* two calls are followed.
DetermineCall ==
    /\ Len(calls) < 2
    /\ \E c \in Contexts, key \in RowKeys,
          random \in (IF Base(partitioner).kind = "*ShuffledPartitioner"
                      THEN Rands ELSE {0}) :
         calls' = Append(calls,
                         [c |-> c, key |-> key, random |-> random,
                          res |-> DeterminePartition(partitioner, c, key,
                                                     numOutputs, random)])
    /\ UNCHANGED <<partitioner, numOutputs, planned, preserved, fromIn, fromOut>>
    /\ UNCHANGED execVars

IsPreservedCall ==
    /\ preserved = "uncalled"
    /\ preserved' = IF IsPreserved(partitioner) THEN "true" ELSE "false"
    /\ UNCHANGED <<partitioner, numOutputs, planned, calls, fromIn, fromOut>>
    /\ UNCHANGED execVars

PartNext == PlanNextCall \/ DetermineCall \/ IsPreservedCall

PartSpec == PartInit /\ [][PartNext]_vars

(***************************************************************************)
(* Properties of the partitioners.                                         *)
(***************************************************************************)
IDsOf(plan) == {plan[i].ID : i \in DOMAIN plan}

\* C13: for the HashKey, Shuffled and Preserve partitioners, a call of
\* DeterminePartition with numOutputs = 0 returns a non-nil error: it neither
\* panics nor returns a partition ID with a nil error.
C13_ZeroOutputsYieldsError ==
    (/\ numOutputs = 0
     /\ partitioner \in {NewHashKeyPartitioner, NewShuffledPartitioner,
                         NewPreservePartitioner}) =>
        \A i \in DOMAIN calls : calls[i].res.err \notin {"nil", "panic"}

\* The constructions named for IsPreserved: the bare partitioner, the one
\* wrapped by WrapPartitioner and the one wrapped by WithAssignmentToMaster.
NamedWrappings(b) == {b, WrapPartitioner(b), WithAssignmentToMaster(b)}

\* C14: IsPreserved answers true for NewPreservePartitioner(), bare, wrapped by
\* WrapPartitioner or wrapped by WithAssignmentToMaster, and false for the
\* HashKey, FiniteKey and Shuffled partitioners and the same wrappings of them.
C14_IsPreservedExact ==
    \A b \in Bases :
        (/\ b[1].kind # "other"
         /\ partitioner \in NamedWrappings(b)
         /\ preserved # "uncalled") =>
            (preserved = "true" <=> b = NewPreservePartitioner)

\* C15: a FiniteKey partitioner built from a key list returns (row.Key, nil)
\* for a row whose key is in the list and ErrNoOutput, with no partition ID,
\* for any other row, whatever numOutputs is; so every ID it returns is one
\* of the keys, and the IDs PlanNext returns are exactly the keys.
C15_FiniteKeyRoutesWithinKeySet ==
    \A ks \in KeyLists :
        partitioner = NewFiniteKeyPartitioner(ks) =>
            LET K == {ks[i] : i \in DOMAIN ks} IN
            /\ \A i \in DOMAIN calls :
                   IF calls[i].key \in K
                   THEN calls[i].res = Result(calls[i].key, "nil")
                   ELSE calls[i].res = Result(<<>>, "ErrNoOutput")
            /\ \A i \in DOMAIN calls :
                   calls[i].res.err = "nil" => calls[i].res.id \in K
            /\ planned.done =>
                   /\ IDsOf(planned.out) = K
                   /\ Len(planned.out) = Cardinality(K)

C15_Witness ==
    /\ partitioner = NewFiniteKeyPartitioner(<<(<<97>>), (<<98>>)>>)
    /\ numOutputs = 0
    /\ planned.done
    /\ Len(calls) = 2
    /\ calls[1].key = <<98>> /\ calls[1].res = Result(<<98>>, "nil")
    /\ calls[2].key = <<97, 98>> /\ calls[2].res.err = "ErrNoOutput"

\* C16: for a partitioner p wrapped by WithAssignmentToMaster, every
\* DeterminePartition call returns what p returns for the same arguments, and
\* PlanNext returns the partitions of p.PlanNext, in the same order with the
\* same ID and IsElastic, whose affinity has "Type" = "master" and otherwise
\* the entries p gave it.
C16_MasterAffinityDelegates ==
    LET p == Tail(Tail(partitioner)) IN
    (DynType(partitioner) = "*masterAssigner"
        /\ partitioner = WithAssignmentToMaster(p)) =>
        /\ \A i \in DOMAIN calls :
               calls[i].res = DeterminePartition(p, calls[i].c, calls[i].key,
                                                 numOutputs, calls[i].random)
        /\ planned.done =>
               LET inner == PlanNext(p, numOutputs, planned.order)
                   out == planned.out
               IN  /\ Len(out) = Len(inner)
                   /\ \A i \in DOMAIN out :
                          /\ out[i].ID = inner[i].ID
                          /\ out[i].IsElastic = inner[i].IsElastic
                          /\ \A e \in out[i].AssignmentAffinity :
                                 e[1] = "Type" => e[2] = "master"
                          /\ <<"Type", "master">> \in out[i].AssignmentAffinity
                          /\ {e \in out[i].AssignmentAffinity : e[1] # "Type"}
                               = {e \in inner[i].AssignmentAffinity : e[1] # "Type"}

C16_Witness ==
    /\ partitioner = WithAssignmentToMaster(
                         OtherPartitioner({<<"Type", "worker">>, <<"Zone", "a">>}))
    /\ numOutputs = 4
    /\ planned.done
    /\ planned.out[4].AssignmentAffinity = {<<"Type", "master">>, <<"Zone", "a">>}
    /\ Len(calls) = 1
    /\ calls[1].res = Result(calls[1].c, "nil")

\* C17: with the HashKey partitioner and numOutputs >= 1, two calls of
\* DeterminePartition for rows with the same key return the same partition
\* ID and no error, whichever task makes the call and in whichever order the
\* calls are made.
C17_HashKeyDeterministic ==
    (partitioner = NewHashKeyPartitioner /\ numOutputs >= 1) =>
        \A i, j \in DOMAIN calls :
            calls[i].key = calls[j].key =>
                /\ calls[i].res = calls[j].res
                /\ calls[i].res.err = "nil"

\* Two tasks route a row with key "ab" and fan-out 4: both get partition "2".
C17_Witness ==
    /\ partitioner = NewHashKeyPartitioner
    /\ numOutputs = 4
    /\ Len(calls) = 2
    /\ calls[1].key = <<97, 98>> /\ calls[2].key = <<97, 98>>
    /\ calls[1].c # calls[2].c
    /\ calls[1].res = Result(Itoa(2), "nil")
    /\ calls[2].res = Result(Itoa(2), "nil")

\* C20: for the HashKey and Shuffled partitioners and n >= 1, PlanNext(n)
\* returns n elastic partitions whose IDs are the pairwise distinct numerals
\* "0" .. "n-1", and every DeterminePartition call with numOutputs = n returns,
\* without error, the ID of one of them.
C20_RoutesWithinPlan ==
    (/\ numOutputs >= 1
     /\ partitioner \in {NewHashKeyPartitioner, NewShuffledPartitioner}) =>
        /\ planned.done =>
               /\ Len(planned.out) = numOutputs
               /\ Cardinality(IDsOf(planned.out)) = numOutputs
               /\ \A i \in DOMAIN planned.out :
                      /\ planned.out[i].ID = Itoa(i - 1)
                      /\ planned.out[i].IsElastic
        /\ \A i \in DOMAIN calls :
               /\ calls[i].res.err = "nil"
               /\ calls[i].res.id \in IDsOf(PlanNext(partitioner, numOutputs, <<>>))

C20_Witness ==
    /\ partitioner = NewShuffledPartitioner
    /\ numOutputs = 4
    /\ planned.done
    /\ Len(calls) = 2
    /\ calls[1].random = 3 /\ calls[1].res.id = Itoa(3)
    /\ calls[2].random > 4 /\ calls[2].res.id \in IDsOf(planned.out)

(***************************************************************************)
(* Package lrdd: From (part_001).                                          *)
(*                                                                         *)
(* A value held by an interface{} is an int, [kind |-> "int"] with the     *)
(* number as its only element, or a slice of ints, [kind |-> "[]int"] with *)
(* the numbers as its elements.  The argument of From is its static Go     *)
(* type and its entries, in the order in which From visits them: the       *)
(* elements of a slice, the entries of a map in the order MapRange yields  *)
(* them, or the one value of a scalar.                                     *)
(***************************************************************************)

\* Longest slice held as a value by the argument of From.
MaxLen == 2

Scalars == {1, 2, 3}
EntryKeys == {<<97>>, <<98>>}

Int(x) == [kind |-> "int", elems |-> <<x>>]
IntSlice(xs) == [kind |-> "[]int", elems |-> xs]
Ints == {Int(x) : x \in Scalars}
IntSlices == {IntSlice(xs) : xs \in Seqs(Scalars, MaxLen)}

Entry(k, v) == [key |-> k, val |-> v]

\* Value(v): a row with the empty key; KeyValue(k, v): a row with key k.
Value(v) == Entry(<<>>, v)
KeyValue(k, v) == Entry(k, v)

\* The values a map or slice of the given static type can hold; the rows of
\* a []*Row hold ints.
ElemsOf(type) ==
    CASE type \in {"map[string]int", "[]int", "[]*Row"} -> Ints
      [] type \in {"map[string][]int"} -> IntSlices
      [] OTHER -> Ints \cup IntSlices

MapTypes == {"map[string]int", "map[string][]int", "map[string]interface{}"}
SliceTypes == {"[]int", "[]interface{}", "[]*Row"}

\* The orders in which MapRange can yield the keys of a map.
KeyOrders == UNION {Perms(S) : S \in SUBSET EntryKeys}

MapEntries(type) ==
    UNION {{[i \in DOMAIN ks |-> Entry(ks[i], vs[i])] :
               vs \in [DOMAIN ks -> ElemsOf(type)]} : ks \in KeyOrders}

\* A slice argument has at most as many elements as a map argument has entries.
SliceEntries(type) ==
    Seqs({Entry(k, v) : k \in (IF type = "[]*Row" THEN EntryKeys ELSE {<<>>}),
                        v \in ElemsOf(type)}, Cardinality(EntryKeys))

FromInputs ==
    UNION {{[type |-> t, entries |-> es] : es \in MapEntries(t)} : t \in MapTypes}
        \cup UNION {{[type |-> t, entries |-> es] : es \in SliceEntries(t)} : t \in SliceTypes}
        \cup {[type |-> "int", entries |-> <<Entry(<<>>, v)>>] : v \in Ints}

\* reflect.ValueOf(values).Kind()
KindOf(type) ==
    CASE type \in SliceTypes -> "Slice"
      [] type \in MapTypes -> "Map"
      [] OTHER -> "Int"

\* Kind() of the reflect.Value that MapIter.Value returns: the kind of the
\* map's static element type, which for map[string]interface{} is Interface
\* whatever value the interface holds.
MapValueKind(type) ==
    CASE type = "map[string][]int" -> "Slice"
      [] type = "map[string]interface{}" -> "Interface"
      [] OTHER -> "Int"

\* The rows From appends for one map entry.
FromMapEntry(type, e) ==
    IF MapValueKind(type) \in {"Array", "Slice"}
    THEN [i \in 1..Len(e.val.elems) |-> KeyValue(e.key, Int(e.val.elems[i]))]
    ELSE <<KeyValue(e.key, e.val)>>

RECURSIVE FromMap(_, _, _)
FromMap(type, es, i) ==
    IF i > Len(es) THEN <<>>
    ELSE FromMapEntry(type, es[i]) \o FromMap(type, es, i + 1)

From(values) ==
    CASE KindOf(values.type) = "Slice" ->
            IF values.type = "[]*Row" THEN values.entries
            ELSE [i \in DOMAIN values.entries |-> Value(values.entries[i].val)]
      [] KindOf(values.type) = "Map" -> FromMap(values.type, values.entries, 1)
      [] OTHER -> <<Value(values.entries[1].val)>>

FromInit ==
    /\ ExecInit
    /\ partitioner = <<>>
    /\ numOutputs = 0
    /\ planned = [done |-> FALSE, order |-> <<>>, out |-> <<>>]
    /\ calls = <<>>
    /\ preserved = "uncalled"
    /\ fromIn \in FromInputs
    /\ fromOut = [done |-> FALSE, rows |-> <<>>]

\* rows := From(values)
FromCall ==
    /\ fromIn.type # "nil"
    /\ ~fromOut.done
    /\ fromOut' = [done |-> TRUE, rows |-> From(fromIn)]
    /\ UNCHANGED <<partitioner, numOutputs, planned, calls, preserved, fromIn>>
    /\ UNCHANGED execVars

FromNext == FromCall

FromSpec == FromInit /\ [][FromNext]_vars

\* The rows an entry stands for: one per element, in element order, when its
\* value is a sequence, and one otherwise.
RowsOfEntry(e) ==
    IF e.val.kind = "[]int"
    THEN [i \in 1..Len(e.val.elems) |-> Entry(e.key, Int(e.val.elems[i]))]
    ELSE <<Entry(e.key, e.val)>>

RECURSIVE RowsOfEntries(_, _)
RowsOfEntries(es, i) ==
    IF i > Len(es) THEN <<>> ELSE RowsOfEntry(es[i]) \o RowsOfEntries(es, i + 1)

\* C18: From applied to a map returns, for each entry, one row with the entry
\* key when the value is a scalar and one row per element, in element order
\* and all with the entry key, when the value is a sequence; so the number of
\* rows is the number of scalar entries plus the lengths of the sequences.
C18_FromMapExpandsSequences ==
    (fromOut.done /\ fromIn.type \in MapTypes) =>
        fromOut.rows = RowsOfEntries(fromIn.entries, 1)

====
